---- MODULE Spec2Model ----
(***************************************************************************)
(* A model of src/src/alloc.c: a break-based allocator with a singly       *)
(* linked free list (HEAD), a next-fit cursor (next_fit_ptr) and the four  *)
(* entry points tumalloc, tucalloc, turealloc and tufree.                  *)
(*                                                                         *)
(* The machine is scaled down: size_t, intptr_t and pointers are SizeWidth *)
(* bits wide instead of 64, so that wrap-around of size arithmetic and the *)
(* unsigned-to-signed conversion at the sbrk call are reachable by TLC.    *)
(* ALIGNMENT and sizeof(free_block) keep their values of the LP64 build.   *)
(*                                                                         *)
(* Memory is a flat array of 8-byte words indexed by byte address, so that *)
(* blocks which come to overlap really alias: a header is the word at the  *)
(* block's address (size) and the next word (next), a payload is the words *)
(* that follow.  Every address the program forms is a multiple of 8.       *)
(*                                                                         *)
(* The arena lies within one page: a store above the break lands while the *)
(* page is mapped (the break is above the arena's start) and faults, which *)
(* stops the program, once a negative increment has emptied the arena.     *)
(***************************************************************************)
EXTENDS Integers, Naturals, Sequences, FiniteSets, TLC

\* Width in bits of size_t / intptr_t / pointers in the scaled machine.
SizeWidth == 8

\* Bytes the operating system grants to the arena before sbrk refuses.
ArenaSize == 112

\* Calls and stores the client makes in one run.
MaxCalls == 5

Modulus == 2 ^ SizeWidth

SIZE_MAX == Modulus - 1

ALIGNMENT == 16

\* Bytes in a word of memory: sizeof(size_t) and sizeof(free_block *).
WordSize == 8

\* sizeof(free_block): a size_t size followed by a free_block *next.
HeaderSize == 2 * WordSize

\* offsetof(free_block, next)
NextOffset == WordSize

NULL == 0

\* (void *)-1, the failure value of sbrk
SbrkFailed == SIZE_MAX

\* The program break before the first call: the first aligned address above NULL.
ArenaBase == ALIGNMENT

ArenaLimit == ArenaBase + ArenaSize

\* The byte addresses of the words of memory.
Addr == {WordSize * w : w \in 0 .. (Modulus \div WordSize) - 1}

\* Unsigned arithmetic of width SizeWidth.
Wrap(x) == x % Modulus

\* The implementation-defined conversion of a size_t to intptr_t (two's complement).
ToIntptr(x) == IF x >= Modulus \div 2 THEN x - Modulus ELSE x

\* Width in bits of int in the scaled machine (split takes its size as an int).
IntWidth == 7

\* The conversion of a size_t to int and back to size_t (split's parameter,
\* then the usual arithmetic conversion in size + sizeof(free_block)).
ToInt(x) ==
    LET m == 2 ^ IntWidth
        t == x % m
    IN  IF t >= m \div 2 THEN t - m ELSE t

IntToSize(i) == (i + Modulus) % Modulus

\* Mutant of AlignUp: the size is rounded up to the word, not to ALIGNMENT.
AlignUp_word(size) ==
    LET v == Wrap(size + WordSize - 1) IN v - (v % WordSize)

\* size = (size + ALIGNMENT - 1) & ~(ALIGNMENT - 1), in size_t arithmetic.
AlignUp(size) ==
    LET t == Wrap(size + ALIGNMENT - 1)
    IN  t - (t % ALIGNMENT)

VARIABLES
    HEAD,           \* static free_block *HEAD
    next_fit_ptr,   \* static free_block *next_fit_ptr
    brk,            \* the program break
    mem,            \* the cells of the address space
    live,           \* payload pointers handed to the client and not released
    released,       \* payload pointers the client has released
    last,           \* the last call: its arguments, result and what it did
    calls           \* how many calls and stores the client has made

vars == <<HEAD, next_fit_ptr, brk, mem, live, released, last, calls>>

\* ---------------------------------------------------------------- memory

LoadField(m, a) == m[Wrap(a)]

StoreField(m, a, v) == [m EXCEPT ![Wrap(a)] = v]

BlockSize(m, b) == LoadField(m, b)

BlockNext(m, b) == LoadField(m, b + NextOffset)

SetSize(m, b, v) == StoreField(m, b, v)

SetNext(m, b, v) == StoreField(m, b + NextOffset, v)

\* ptr - 1 in units of free_block
HeaderOf(ptr) == Wrap(ptr + Modulus - HeaderSize)

\* (void *)(block + 1)
PayloadOf(b) == Wrap(b + HeaderSize)

\* The allocator's state as one value, so that one entry point can call another.
State == [HEAD |-> HEAD, next_fit_ptr |-> next_fit_ptr, brk |-> brk, mem |-> mem]

\* ------------------------------------------------------------------ sbrk

\* sbrk(increment): the outcomes [ret, brk] of one call with the break at b.
\* The increment arrives as an intptr_t.  A positive increment moves the break
\* up unless the arena would pass ArenaLimit; a negative one moves it down.  A
\* decrement below the start of the arena is refused, either with (void *)-1
\* or (the kernel keeps the break, the library reports success) by returning
\* the old break without moving it.
sbrk(b, increment) ==
    LET inc == ToIntptr(increment)
        nb  == b + inc
    IN  IF inc >= 0
        THEN IF nb <= ArenaLimit
             THEN {[ret |-> b, brk |-> nb]}
             ELSE {[ret |-> SbrkFailed, brk |-> b]}
        ELSE IF nb >= ArenaBase
             THEN {[ret |-> b, brk |-> nb]}
             ELSE {[ret |-> SbrkFailed, brk |-> b], [ret |-> b, brk |-> b]}

\* The arena lies within one page, which the kernel keeps mapped while the
\* break b is above the start of the arena; a store to the page faults
\* otherwise.
Mapped(b) == b > ArenaBase

\* ----------------------------------------------------------------- split

\* split(block, size): [ret, mem].  size is an int; the remainder's header is
\* written, the block is shrunk, and the list is not touched.
split(m, block, size) ==
    LET sz == IntToSize(ToInt(size))
        bs == BlockSize(m, block)
    IN  IF bs < Wrap(sz + HeaderSize)
        THEN [ret |-> NULL, mem |-> m]
        ELSE LET new_block == Wrap(block + sz + HeaderSize)
                 m1 == SetSize(m, new_block, Wrap(bs + 2 * Modulus - sz - HeaderSize))
                 m2 == SetNext(m1, new_block, BlockNext(m1, block))
                 m3 == SetSize(m2, block, sz)
             IN  [ret |-> block, mem |-> m3]

\* ------------------------------------------------- the neighbour search

RECURSIVE FindPrevFrom(_, _, _, _)
FindPrevFrom(m, curr, block, seen) ==
    IF curr = NULL
    THEN [ret |-> NULL, hang |-> FALSE]
    ELSE IF Wrap(curr + BlockSize(m, curr) + HeaderSize) = block
    THEN [ret |-> curr, hang |-> FALSE]
    ELSE IF curr \in seen
    THEN [ret |-> NULL, hang |-> TRUE]
    ELSE FindPrevFrom(m, BlockNext(m, curr), block, seen \cup {curr})

\* find_prev(block): the first block of the list that ends where block starts.
find_prev(s, block) == FindPrevFrom(s.mem, s.HEAD, block, {})

RECURSIVE FindNextFrom(_, _, _, _)
FindNextFrom(m, curr, block_end, seen) ==
    IF curr = NULL
    THEN [ret |-> NULL, hang |-> FALSE]
    ELSE IF curr = block_end
    THEN [ret |-> curr, hang |-> FALSE]
    ELSE IF curr \in seen
    THEN [ret |-> NULL, hang |-> TRUE]
    ELSE FindNextFrom(m, BlockNext(m, curr), block_end, seen \cup {curr})

\* find_next(block): the block of the list that starts where block ends.
find_next(s, block) ==
    FindNextFrom(s.mem, s.HEAD,
                 Wrap(block + BlockSize(s.mem, block) + HeaderSize), {})

\* ----------------------------------------------------- remove_free_block

RECURSIVE RemoveFrom(_, _, _, _)
RemoveFrom(m, curr, block, seen) ==
    IF curr = NULL
    THEN [mem |-> m, hang |-> FALSE]
    ELSE IF BlockNext(m, curr) = block
    THEN [mem |-> SetNext(m, curr, BlockNext(m, block)), hang |-> FALSE]
    ELSE IF curr \in seen
    THEN [mem |-> m, hang |-> TRUE]
    ELSE RemoveFrom(m, BlockNext(m, curr), block, seen \cup {curr})

\* remove_free_block(block): [st, hang].
remove_free_block(s, block) ==
    IF s.HEAD = block
    THEN [st |-> [s EXCEPT !.HEAD = BlockNext(s.mem, block)], hang |-> FALSE]
    ELSE LET r == RemoveFrom(s.mem, s.HEAD, block, {})
         IN  [st |-> [s EXCEPT !.mem = r.mem], hang |-> r.hang]

\* -------------------------------------------------------------- coalesce

\* coalesce(block): [st, ret, hang].
coalesce(s, block) ==
    IF block = NULL
    THEN [st |-> s, ret |-> NULL, hang |-> FALSE]
    ELSE LET p == find_prev(s, block)
             n == find_next(s, block)
         IN  IF p.hang \/ n.hang
             THEN [st |-> s, ret |-> NULL, hang |-> TRUE]
             ELSE
             LET prev == p.ret
                 next == n.ret
                 m0   == s.mem
                 joinPrev ==
                     /\ prev # NULL
                     /\ Wrap(prev + BlockSize(m0, prev) + HeaderSize) = block
                 m1 == IF joinPrev
                       THEN SetSize(m0, prev,
                                Wrap(BlockSize(m0, prev) + BlockSize(m0, block)
                                     + HeaderSize))
                       ELSE m0
                 m2 == IF joinPrev /\ BlockNext(m1, prev) = block
                       THEN SetNext(m1, prev, BlockNext(m1, block))
                       ELSE m1
                 blk == IF joinPrev THEN prev ELSE block
                 joinNext ==
                     /\ next # NULL
                     /\ Wrap(blk + BlockSize(m2, blk) + HeaderSize) = next
                 m3 == IF joinNext
                       THEN SetSize(m2, blk,
                                Wrap(BlockSize(m2, blk) + BlockSize(m2, next)
                                     + HeaderSize))
                       ELSE m2
                 m4 == IF joinNext
                       THEN SetNext(m3, blk, BlockNext(m3, next))
                       ELSE m3
             IN  [st |-> [s EXCEPT !.mem = m4], ret |-> blk, hang |-> FALSE]

\* -------------------------------------------------------------- do_alloc

\* do_alloc(size): the outcomes [st, ret, refused, hang].  No entry point
\* calls it.
do_alloc(s, size) ==
    { IF o.ret = SbrkFailed
      THEN [st |-> s, ret |-> NULL, refused |-> TRUE, hang |-> FALSE]
      ELSE LET new_block == o.ret
               m1 == SetSize(s.mem, new_block, size)
               m2 == SetNext(m1, new_block, s.HEAD)
               s1 == [s EXCEPT !.mem = m2, !.HEAD = new_block, !.brk = o.brk]
               c  == coalesce(s1, s1.HEAD)
           IN  [st |-> [c.st EXCEPT !.HEAD = c.ret],
                ret |-> PayloadOf(new_block), refused |-> FALSE,
                hang |-> c.hang]
      : o \in sbrk(s.brk, Wrap(size + HeaderSize)) }

\* -------------------------------------------------------------- tumalloc

\* The while loop of tumalloc: the first block from curr on whose size is at
\* least size, with the block visited before it.  A chain that returns to a
\* block already visited never ends the loop (hang).
RECURSIVE Search(_, _, _, _, _)
Search(m, curr, prev, size, seen) ==
    IF curr = NULL
    THEN [found |-> FALSE, hang |-> FALSE, curr |-> NULL, prev |-> prev]
    ELSE IF BlockSize(m, curr) >= size
    THEN [found |-> TRUE, hang |-> FALSE, curr |-> curr, prev |-> prev]
    ELSE IF curr \in seen
    THEN [found |-> FALSE, hang |-> TRUE, curr |-> curr, prev |-> prev]
    ELSE Search(m, BlockNext(m, curr), curr, size, seen \cup {curr})

\* The block found is split when it is larger than size plus a header, then
\* unlinked from prev (or from HEAD), and the cursor moves to its successor.
TumallocHit(s, curr, prev, size) ==
    LET m1 == IF BlockSize(s.mem, curr) > Wrap(size + HeaderSize)
              THEN split(s.mem, curr, size).mem
              ELSE s.mem
        m2 == IF prev # NULL THEN SetNext(m1, prev, BlockNext(m1, curr)) ELSE m1
        h  == IF prev # NULL THEN s.HEAD ELSE BlockNext(m1, curr)
        n  == IF BlockNext(m2, curr) # NULL THEN BlockNext(m2, curr) ELSE h
    IN  [st |-> [HEAD |-> h, next_fit_ptr |-> n, brk |-> s.brk, mem |-> m2],
         ret |-> PayloadOf(curr), called |-> FALSE, refused |-> FALSE,
         stopped |-> FALSE]

\* Mutant of TumallocRefused: after a refusal the extension is retried for a
\* block without payload.
TumallocRefused_retry(s, size) ==
    { IF o.ret = SbrkFailed
      THEN [st |-> s, ret |-> NULL, called |-> TRUE, refused |-> TRUE,
            stopped |-> FALSE]
      ELSE [st |-> [s EXCEPT !.brk = o.brk,
                             !.mem = SetNext(SetSize(s.mem, o.ret, 0), o.ret, s.HEAD)],
            ret |-> PayloadOf(o.ret), called |-> TRUE, refused |-> TRUE,
            stopped |-> FALSE]
      : o \in sbrk(s.brk, HeaderSize) }

\* sbrk failed: tumalloc reports it and returns NULL, the state as it was.
TumallocRefused(s, size) ==
    {[st |-> s, ret |-> NULL, called |-> TRUE, refused |-> TRUE, stopped |-> FALSE]}

\* Mutant of TumallocFresh: the new block is also made the head of the list,
\* as do_alloc does.
TumallocFresh_linked(s, new_block, b, size) ==
    LET m1 == SetSize(s.mem, new_block, size)
        m2 == SetNext(m1, new_block, s.HEAD)
    IN  IF ~Mapped(b)
        THEN [st |-> [s EXCEPT !.brk = b], ret |-> NULL, called |-> TRUE,
              refused |-> FALSE, stopped |-> TRUE]
        ELSE [st |-> [HEAD |-> new_block, next_fit_ptr |-> NULL, brk |-> b,
                      mem |-> m2],
              ret |-> PayloadOf(new_block), called |-> TRUE,
              refused |-> FALSE, stopped |-> FALSE]

\* sbrk returned new_block and moved the break to b: the header is written
\* (size, next = HEAD), the block is not linked, the cursor is reset.
TumallocFresh(s, new_block, b, size) ==
    LET m1 == SetSize(s.mem, new_block, size)
        m2 == SetNext(m1, new_block, s.HEAD)
    IN  IF ~Mapped(b)
        THEN [st |-> [s EXCEPT !.brk = b], ret |-> NULL, called |-> TRUE,
              refused |-> FALSE, stopped |-> TRUE]
        ELSE [st |-> [HEAD |-> s.HEAD, next_fit_ptr |-> NULL, brk |-> b,
                      mem |-> m2],
              ret |-> PayloadOf(new_block), called |-> TRUE,
              refused |-> FALSE, stopped |-> FALSE]

\* No block fits: the arena is extended by size plus a header.
TumallocMiss(s, size) ==
    UNION { IF o.ret = SbrkFailed
            THEN TumallocRefused(s, size)
            ELSE {TumallocFresh(s, o.ret, o.brk, size)}
            : o \in sbrk(s.brk, Wrap(size + HeaderSize)) }

\* tumalloc(size) in state s: the set of its outcomes
\* [st, ret, called (sbrk was called), refused (sbrk failed),
\* stopped (the call never returns: the loop never ends, or a store faults)].
tumalloc(s, sz) ==
    LET size  == AlignUp(sz)
        start == IF s.next_fit_ptr # NULL THEN s.next_fit_ptr ELSE s.HEAD
        f     == Search(s.mem, start, NULL, size, {})
    IN  IF f.hang
        THEN {[st |-> s, ret |-> NULL, called |-> FALSE, refused |-> FALSE,
               stopped |-> TRUE]}
        ELSE IF f.found
        THEN {TumallocHit(s, f.curr, f.prev, size)}
        ELSE TumallocMiss(s, size)

\* ------------------------------------------------------- memcpy / memset

\* The word at x starts inside the n bytes from p on.
InRange(x, p, n) == Wrap(x + Modulus - p) < n

memset(m, p, n) == [x \in Addr |-> IF InRange(x, p, n) THEN 0 ELSE m[x]]

RECURSIVE CopyUp(_, _, _, _, _)
CopyUp(m, dst, src, i, n) ==
    IF i >= n THEN m
    ELSE CopyUp([m EXCEPT ![Wrap(dst + i)] = m[Wrap(src + i)]],
                dst, src, i + WordSize, n)

RECURSIVE CopyDown(_, _, _, _)
CopyDown(m, dst, src, i) ==
    IF i <= 0 THEN m
    ELSE CopyDown([m EXCEPT ![Wrap(dst + i - WordSize)] = m[Wrap(src + i - WordSize)]],
                  dst, src, i - WordSize)

\* memcpy(dst, src, n): the possible memories afterwards.  Overlapping
\* regions are undefined behaviour: the library may copy upwards or downwards.
memcpy(m, dst, src, n) ==
    IF \E x \in Addr : InRange(x, dst, n) /\ InRange(x, src, n)
    THEN {CopyUp(m, dst, src, 0, n), CopyDown(m, dst, src, n)}
    ELSE {[x \in Addr |->
            IF InRange(x, dst, n) THEN m[Wrap(src + Wrap(x + Modulus - dst))]
            ELSE m[x]]}

\* ---------------------------------------------------------------- tufree

\* Mutant of tufree: the block is pushed onto the list and not coalesced.
tufree_nocoalesce(s, ptr) ==
    IF ptr = NULL THEN s
    ELSE [s EXCEPT !.mem = SetNext(s.mem, HeaderOf(ptr), s.HEAD),
                   !.HEAD = HeaderOf(ptr)]

\* tufree(ptr): the body is empty.
tufree(s, ptr) == s

\* -------------------------------------------------------------- tucalloc

\* Mutant of Quotients: the overflow test compares against SIZE_MAX itself.
Quotients_nodivide(size) == {[fault |-> FALSE, q |-> SIZE_MAX]}

\* SIZE_MAX / size.  Division by zero is undefined behaviour: the build traps
\* (fault) or the division instruction yields 0.
Quotients(size) ==
    IF size = 0
    THEN {[fault |-> TRUE, q |-> 0], [fault |-> FALSE, q |-> 0]}
    ELSE {[fault |-> FALSE, q |-> SIZE_MAX \div size]}

\* tucalloc(num, size) in state s: outcomes [st, ret, called, refused, stopped,
\* delegated]; delegated says that tumalloc was called.
tucalloc(s, num, size) ==
    UNION {
        IF d.fault
        THEN {[st |-> s, ret |-> NULL, called |-> FALSE, refused |-> FALSE,
               stopped |-> TRUE, delegated |-> FALSE]}
        ELSE IF num > d.q
        THEN {[st |-> s, ret |-> NULL, called |-> FALSE, refused |-> FALSE,
               stopped |-> FALSE, delegated |-> FALSE]}
        ELSE LET total_size == Wrap(num * size)
             IN  { [st |-> IF o.ret # NULL
                           THEN [o.st EXCEPT !.mem = memset(o.st.mem, o.ret, total_size)]
                           ELSE o.st,
                    ret |-> o.ret, called |-> o.called, refused |-> o.refused,
                    stopped |-> o.stopped, delegated |-> TRUE]
                   : o \in tumalloc(s, total_size) }
        : d \in Quotients(size) }

\* ------------------------------------------------------------- turealloc

\* Mutant of Covers: > for >=.
Covers_strict(block_size, new_size) == block_size > new_size

\* block->size >= new_size: the block already covers the request.
Covers(block_size, new_size) == block_size >= new_size

\* Mutant of ReallocFailed: the old pointer is returned in place of NULL.
ReallocFailed_keep(o, ptr) ==
    [st |-> o.st, ret |-> ptr, called |-> o.called, refused |-> o.refused,
     stopped |-> o.stopped, moved |-> FALSE]

\* tumalloc returned NULL to turealloc: nothing is copied or released and
\* NULL is returned.
ReallocFailed(o, ptr) ==
    [st |-> o.st, ret |-> NULL, called |-> o.called, refused |-> o.refused,
     stopped |-> o.stopped, moved |-> FALSE]

\* turealloc(ptr, new_size) in state s: outcomes
\* [st, ret, called, refused, stopped, moved (a fresh block replaced ptr's)].
turealloc(s, ptr, new_size) ==
    IF ptr = NULL
    THEN { [st |-> o.st, ret |-> o.ret, called |-> o.called,
            refused |-> o.refused, stopped |-> o.stopped, moved |-> FALSE]
           : o \in tumalloc(s, new_size) }
    ELSE LET block == HeaderOf(ptr)
         IN  IF Covers(BlockSize(s.mem, block), new_size)
             THEN {[st |-> s, ret |-> ptr, called |-> FALSE, refused |-> FALSE,
                    stopped |-> FALSE, moved |-> FALSE]}
             ELSE UNION {
                    IF o.ret # NULL
                    THEN { [st |-> tufree([o.st EXCEPT !.mem = m2], ptr),
                            ret |-> o.ret, called |-> o.called,
                            refused |-> o.refused, stopped |-> FALSE,
                            moved |-> TRUE]
                           : m2 \in memcpy(o.st.mem, o.ret, ptr,
                                           BlockSize(o.st.mem, block)) }
                    ELSE {ReallocFailed(o, ptr)}
                    : o \in tumalloc(s, new_size) }

\* ------------------------------------------------------ the client's calls

\* Sizes the client asks for: zero, one below and at the alignment, two
\* alignments, a size whose increment is negative as an intptr_t, and a size
\* whose rounding wraps.
Sizes == {0, 1, ALIGNMENT, 2 * ALIGNMENT, SIZE_MAX - 47, SIZE_MAX - 5}

\* Element counts and element sizes the client passes to tucalloc.
Nums == {0, 2, SIZE_MAX}

ElemSizes == {0, WordSize}

\* The non-zero word the client writes into its payloads.
Pattern == 21 * WordSize

NoCall == [op |-> "init", num |-> 0, size |-> 0, ptr |-> NULL, ret |-> NULL,
           called |-> FALSE, refused |-> FALSE, stopped |-> FALSE,
           moved |-> FALSE, delegated |-> FALSE]

Init ==
    /\ HEAD = NULL
    /\ next_fit_ptr = NULL
    /\ brk = ArenaBase
    /\ mem = [x \in Addr |-> 0]
    /\ live = {}
    /\ released = {}
    /\ last = NoCall
    /\ calls = 0

\* A call is made while the program runs and the client has calls left.
Call ==
    /\ ~last.stopped
    /\ calls < MaxCalls
    /\ calls' = calls + 1

SetState(st) ==
    /\ HEAD' = st.HEAD
    /\ next_fit_ptr' = st.next_fit_ptr
    /\ brk' = st.brk
    /\ mem' = st.mem

\* The client's record of what it holds after a call that returned ret.
Handed(ret) ==
    /\ live' = IF ret # NULL THEN live \cup {ret} ELSE live
    /\ released' = released \ {ret}

\* What a call of tumalloc(size) does to the program and its client.
TumallocReturns(size) ==
    \E o \in tumalloc(State, size) :
        /\ SetState(o.st)
        /\ Handed(o.ret)
        /\ last' = [NoCall EXCEPT !.op = "tumalloc", !.size = size,
                                  !.ret = o.ret, !.called = o.called,
                                  !.refused = o.refused, !.stopped = o.stopped]

Tumalloc(size) ==
    /\ Call
    /\ TumallocReturns(size)

\* What a call of tucalloc(num, size) does to the program and its client.
TucallocReturns(num, size) ==
    \E o \in tucalloc(State, num, size) :
        /\ SetState(o.st)
        /\ Handed(o.ret)
        /\ last' = [NoCall EXCEPT !.op = "tucalloc", !.num = num,
                                  !.size = size, !.ret = o.ret,
                                  !.called = o.called, !.refused = o.refused,
                                  !.stopped = o.stopped,
                                  !.delegated = o.delegated]

Tucalloc(num, size) ==
    /\ Call
    /\ TucallocReturns(num, size)

Turealloc(ptr, new_size) ==
    /\ Call
    /\ \E o \in turealloc(State, ptr, new_size) :
        /\ SetState(o.st)
        /\ IF o.moved
           THEN /\ live' = (live \ {ptr}) \cup {o.ret}
                /\ released' = (released \cup {ptr}) \ {o.ret}
           ELSE Handed(o.ret)
        /\ last' = [NoCall EXCEPT !.op = "turealloc", !.ptr = ptr,
                                  !.size = new_size, !.ret = o.ret,
                                  !.called = o.called, !.refused = o.refused,
                                  !.stopped = o.stopped, !.moved = o.moved]

Tufree(ptr) ==
    /\ Call
    /\ SetState(tufree(State, ptr))
    /\ live' = live \ {ptr}
    /\ released' = IF ptr # NULL THEN released \cup {ptr} ELSE released
    /\ last' = [NoCall EXCEPT !.op = "tufree", !.ptr = ptr]

\* The client stores Pattern into the first or the last word of a payload it
\* holds, as far as the block's header says the payload reaches.
ClientWrite(ptr, off) ==
    /\ Call
    /\ Mapped(brk)
    /\ off >= 0
    /\ off < BlockSize(mem, HeaderOf(ptr))
    /\ mem' = [mem EXCEPT ![Wrap(ptr + off)] = Pattern]
    /\ UNCHANGED <<HEAD, next_fit_ptr, brk, live, released>>
    /\ last' = [NoCall EXCEPT !.op = "write", !.ptr = ptr, !.size = off]

Next ==
    \/ \E size \in Sizes : Tumalloc(size)
    \/ \E num \in Nums, size \in ElemSizes : Tucalloc(num, size)
    \/ \E ptr \in live \cup {NULL}, new_size \in Sizes : Turealloc(ptr, new_size)
    \/ \E ptr \in live \cup {NULL} : Tufree(ptr)
    \/ \E ptr \in live :
          \E off \in {0, BlockSize(mem, HeaderOf(ptr)) - WordSize} :
              ClientWrite(ptr, off)

Spec == Init /\ [][Next]_vars

\* ---------------------------------------- tucalloc over its argument range

\* The calls a client of the second specification makes.
MaxZeroCalls == 3

\* Element counts and element sizes around the points where num * size
\* leaves the range of size_t, and the zero of each.
Counts == {0, 1, 2, Modulus \div WordSize - 1, Modulus \div WordSize, SIZE_MAX}

Widths == {0, 1, WordSize, SIZE_MAX}

TucallocAny(num, size) ==
    /\ ~last.stopped
    /\ calls < MaxZeroCalls
    /\ calls' = calls + 1
    /\ TucallocReturns(num, size)

NextCalloc ==
    \/ \E num \in Counts, size \in Widths : TucallocAny(num, size)
    \/ \E ptr \in live :
          \E off \in {0, BlockSize(mem, HeaderOf(ptr)) - WordSize} :
              /\ calls < MaxZeroCalls
              /\ ClientWrite(ptr, off)

SpecCalloc == Init /\ [][NextCalloc]_vars

\* ============================================================ properties

\* The blocks reachable from head h by next in memory m.
RECURSIVE Reach(_, _, _)
Reach(m, b, seen) ==
    IF b = NULL \/ b \in seen THEN seen
    ELSE Reach(m, BlockNext(m, b), seen \cup {b})

FreeListOf(h, m) == Reach(m, h, {})

FreeList == FreeListOf(HEAD, mem)

\* One past the last byte of the block at b, as an integer (no wrap).
BlockEnd(m, b) == b + HeaderSize + BlockSize(m, b)

\* The headers of the blocks the client holds.
LiveBlocks == {HeaderOf(p) : p \in live}

AllocatorUnchanged == UNCHANGED <<HEAD, next_fit_ptr, brk, mem, live, released>>

\* The blocks reachable from head h by next in memory m, in list order, up
\* to the first block met twice.
RECURSIVE Chain(_, _, _)
Chain(m, b, seen) ==
    IF b = NULL \/ b \in seen THEN <<>>
    ELSE <<b>> \o Chain(m, BlockNext(m, b), seen \cup {b})

FreeSeq(h, m) == Chain(m, h, {})

\* The walk from head h by next reaches NULL.
RECURSIVE Ends(_, _, _)
Ends(m, b, seen) ==
    IF b = NULL THEN TRUE
    ELSE IF b \in seen THEN FALSE
    ELSE Ends(m, BlockNext(m, b), seen \cup {b})

Acyclic(h, m) == Ends(m, h, {})

\* A well-formed heap: the list ends, the blocks of the list and of the
\* client lie in the arena and are disjoint, the cursor is unset or in the
\* list.
WellFormed ==
    LET bs == LiveBlocks \cup FreeList
    IN  /\ Acyclic(HEAD, mem)
        /\ LiveBlocks \cap FreeList = {}
        /\ \A b \in bs : ArenaBase <= b /\ BlockEnd(mem, b) <= brk
        /\ \A a, b \in bs :
              a # b => BlockEnd(mem, a) <= b \/ BlockEnd(mem, b) <= a
        /\ next_fit_ptr \in FreeList \cup {NULL}

\* ------------------------------------------ the calls on a given free list

\* The blocks of a given heap and the calls made on it.
MaxBlocks == 3

MaxListCalls == 2

\* The sizes of the blocks of a given heap, and the sizes asked of it.
BlockSizes == {ALIGNMENT, 2 * ALIGNMENT, 3 * ALIGNMENT}

Requests == {0, 1, ALIGNMENT, 2 * ALIGNMENT}

\* The bytes the first n blocks of the layout q take, headers included.
RECURSIVE Extent(_, _)
Extent(q, n) == IF n = 0 THEN 0 ELSE Extent(q, n - 1) + HeaderSize + q[n]

\* The heaps: adjacent blocks from ArenaBase on that fit the arena.
Layouts ==
    {q \in UNION {[1..n -> BlockSizes] : n \in 1..MaxBlocks} :
        Extent(q, Len(q)) <= ArenaSize}

BlockAt(q, i) == ArenaBase + Extent(q, i - 1)

\* The free lists over n blocks: any of the blocks, in any order, once each.
Chains(n) ==
    {c \in UNION {[1..k -> 1..n] : k \in 0..n} :
        \A i, j \in DOMAIN c : i # j => c[i] # c[j]}

\* The memory of layout q whose free list is c: each header holds its size,
\* each listed block points to the next of the list, the last to NULL.
ListMem(q, c) ==
    [x \in Addr |->
        IF \E i \in DOMAIN q : x = BlockAt(q, i)
        THEN q[CHOOSE i \in DOMAIN q : x = BlockAt(q, i)]
        ELSE IF \E k \in 1..(Len(c) - 1) : x = BlockAt(q, c[k]) + NextOffset
        THEN BlockAt(q, c[1 + CHOOSE k \in 1..(Len(c) - 1) :
                                  x = BlockAt(q, c[k]) + NextOffset])
        ELSE 0]

\* Every heap, every free list over it, every position of the cursor.
ListInit ==
    \E q \in Layouts : \E c \in Chains(Len(q)) : \E k \in 0..Len(c) :
        /\ HEAD = IF Len(c) = 0 THEN NULL ELSE BlockAt(q, c[1])
        /\ next_fit_ptr = IF k = 0 THEN NULL ELSE BlockAt(q, c[k])
        /\ brk = ArenaBase + Extent(q, Len(q))
        /\ mem = ListMem(q, c)
        /\ live = {PayloadOf(BlockAt(q, i)) :
                      i \in DOMAIN q \ {c[j] : j \in DOMAIN c}}
        /\ released = {}
        /\ last = NoCall
        /\ calls = 0

ListCall ==
    /\ ~last.stopped
    /\ calls < MaxListCalls
    /\ calls' = calls + 1

ListTumalloc(size) ==
    /\ ListCall
    /\ TumallocReturns(size)

\* coalesce(block) called on a block of the list; the return value is
\* recorded and HEAD is left to the caller.
ListCoalesce(block) ==
    /\ ListCall
    /\ LET o == coalesce(State, block)
       IN  /\ SetState(o.st)
           /\ last' = [NoCall EXCEPT !.op = "coalesce", !.ptr = block,
                                     !.ret = o.ret, !.stopped = o.hang]
    /\ UNCHANGED <<live, released>>

NextList ==
    \/ \E size \in Requests : ListTumalloc(size)
    \/ \E block \in FreeList : ListCoalesce(block)

SpecList == ListInit /\ [][NextList]_vars

\* --------------------------------------- the calls that build a free list

\* The calls made on the extender and on tumalloc.
MaxOpsCalls == 6

\* The sizes passed to do_alloc (rounded, as tumalloc rounds them), and the
\* sizes passed to tumalloc: those, an unrounded one, and one whose increment
\* is negative as an intptr_t.
OpsSizes == {0, ALIGNMENT, 2 * ALIGNMENT}

OpsRequests == OpsSizes \cup {1, SIZE_MAX - 47}

OpsCall ==
    /\ ~last.stopped
    /\ calls < MaxOpsCalls
    /\ calls' = calls + 1

\* do_alloc(size): the block is put on the list; the pointer goes back to
\* the caller inside the allocator, not to the client.
DoAlloc(size) ==
    /\ OpsCall
    /\ \E o \in do_alloc(State, size) :
        /\ SetState(o.st)
        /\ last' = [NoCall EXCEPT !.op = "do_alloc", !.size = size,
                                  !.ret = o.ret, !.called = TRUE,
                                  !.refused = o.refused, !.stopped = o.hang]
    /\ UNCHANGED <<live, released>>

OpsTumalloc(size) ==
    /\ OpsCall
    /\ TumallocReturns(size)

NextOps ==
    \/ \E size \in OpsSizes : DoAlloc(size)
    \/ \E size \in OpsRequests : OpsTumalloc(size)

SpecOps == Init /\ [][NextOps]_vars

\* ---- C1 -----------------------------------------------------------------
\* C1: the blocks handed to the client and the blocks of the free list lie
\* inside the arena [ArenaBase, brk) and their byte ranges
\* [header, header + header_size + size) are pairwise disjoint.
C1_BlocksDisjoint ==
    LET bs == LiveBlocks \cup FreeList
    IN  /\ \A b \in bs : ArenaBase <= b /\ BlockEnd(mem, b) <= brk
        /\ \A a, b \in bs :
              a # b => BlockEnd(mem, a) <= b \/ BlockEnd(mem, b) <= a

C3_ReleasedIsInFreeList ==
    (last.op = "tufree" /\ last.ptr # NULL) =>
        LET b == HeaderOf(last.ptr)
        IN  Cardinality({f \in FreeList :
                            f <= b /\ BlockEnd(mem, b) <= BlockEnd(mem, f)}) = 1

\* ---- C4 -----------------------------------------------------------------
\* The state after p1 = allocate(16), p2 = allocate(32), release(p1).
C4_Scenario ==
    LET p1 == PayloadOf(ArenaBase)
        p2 == PayloadOf(ArenaBase + HeaderSize + 16)
    IN  /\ live = {p2}
        /\ released = {p1}
        /\ BlockSize(mem, HeaderOf(p1)) = 16
        /\ BlockSize(mem, HeaderOf(p2)) = 32
        /\ brk = ArenaBase + 2 * HeaderSize + 48
        /\ last.op = "tufree" /\ last.ptr = p1

\* C4: allocate(16) after that scenario makes no call to sbrk, and no
\* allocate(S) issued while the free list holds a block of size >= S does.
C4_ReuseWithoutGrowth ==
    [][ last'.op = "tumalloc" =>
          /\ (C4_Scenario /\ last'.size = 16) => ~last'.called
          /\ (\E f \in FreeList : BlockSize(mem, f) >= last'.size)
                => ~last'.called ]_vars

\* ---- C5 -----------------------------------------------------------------
\* C5: when the second of two address-adjacent blocks A, B (B's header where
\* A's payload ends) is released, the free list holds one block at A's header
\* of size A.size + B.size + header_size and no entry for B.
C5_AdjacentReleasesMerge ==
    [][ (last'.op = "tufree" /\ last'.ptr # NULL) =>
          \A q \in released :
            \A a \in {last'.ptr, q} : \A b \in {last'.ptr, q} :
              LET ha == HeaderOf(a)
                  hb == HeaderOf(b)
              IN  (a # b /\ BlockEnd(mem, ha) = hb) =>
                    /\ ha \in FreeListOf(HEAD', mem')
                    /\ hb \notin FreeListOf(HEAD', mem')
                    /\ BlockSize(mem', ha) =
                         BlockSize(mem, ha) + BlockSize(mem, hb) + HeaderSize
      ]_vars

C7_RefusedAllocateChangesNothing ==
    [][ (last'.op = "tumalloc" /\ last'.refused) =>
          (last'.ret = NULL /\ AllocatorUnchanged) ]_vars

\* allocate was refused for want of room while the client holds a block.
C7_Witness ==
    /\ last.op = "tumalloc"
    /\ last.refused
    /\ last.ret = NULL
    /\ live # {}
    /\ ToIntptr(Wrap(AlignUp(last.size) + HeaderSize)) > 0
    /\ brk + AlignUp(last.size) + HeaderSize > ArenaLimit

\* ---- C8 -----------------------------------------------------------------
\* C8: when resize(P, new_size) needs a fresh block and sbrk refuses, resize
\* returns NULL; P's header, P's payload, the free list, the cursor and the
\* break are unchanged and P stays with the client.
C8_FailedResizeKeepsBlock ==
    [][ ( /\ last'.op = "turealloc"
          /\ last'.ptr # NULL
          /\ BlockSize(mem, HeaderOf(last'.ptr)) < last'.size
          /\ last'.refused ) =>
          (last'.ret = NULL /\ last'.ptr \in live' /\ AllocatorUnchanged)
      ]_vars

\* A resize that had to grow a block holding the client's data was refused.
C8_Witness ==
    /\ last.op = "turealloc"
    /\ last.ptr # NULL
    /\ last.refused
    /\ BlockSize(mem, HeaderOf(last.ptr)) < last.size
    /\ mem[last.ptr] = Pattern

\* ---- C9 -----------------------------------------------------------------
\* C9: resize(P, new_size) with new_size <= the size in P's header returns P,
\* calls neither sbrk nor release, and changes nothing.
C9_ResizeInPlace ==
    [][ ( /\ last'.op = "turealloc"
          /\ last'.ptr # NULL
          /\ last'.size <= BlockSize(mem, HeaderOf(last'.ptr)) ) =>
          ( /\ last'.ret = last'.ptr
            /\ ~last'.called
            /\ ~last'.moved
            /\ AllocatorUnchanged )
      ]_vars

\* A resize to exactly the size of a block holding the client's data
\* returned the pointer.
C9_Witness ==
    /\ last.op = "turealloc"
    /\ last.ptr # NULL
    /\ last.ret = last.ptr
    /\ last.size > 0
    /\ last.size = BlockSize(mem, HeaderOf(last.ptr))
    /\ mem[last.ptr] = Pattern

\* ---- C10 ----------------------------------------------------------------
\* C10: resize(P, new_size) with new_size > old_size whose allocation
\* succeeds returns Q with a block of size >= new_size whose first old_size
\* bytes are those P held, the copy staying inside both payloads.
C10_GrowPreservesPayload ==
    [][ LET ptr      == last'.ptr
            q        == last'.ret
            old_size == BlockSize(mem, HeaderOf(ptr))
        IN  ( /\ last'.op = "turealloc"
              /\ ptr # NULL
              /\ last'.size > old_size
              /\ q # NULL ) =>
              ( /\ BlockSize(mem', HeaderOf(q)) >= last'.size
                /\ old_size <= BlockSize(mem', HeaderOf(q))
                /\ \A x \in Addr :
                      InRange(x, ptr, old_size) =>
                        mem'[Wrap(q + Wrap(x + Modulus - ptr))] = mem[x] )
      ]_vars

\* ---- C11 ----------------------------------------------------------------
\* C11: a call tucalloc(num, size) whose mathematical product num * size
\* exceeds SIZE_MAX returns NULL without calling tumalloc or sbrk, and leaves
\* HEAD, next_fit_ptr, the break, the memory and the client's blocks as
\* they were.
C11_OverflowFailsUntouched ==
    [][ (last'.op = "tucalloc" /\ last'.num * last'.size > SIZE_MAX) =>
          ( /\ last'.ret = NULL
            /\ ~last'.delegated
            /\ ~last'.called
            /\ ~last'.stopped
            /\ AllocatorUnchanged )
      ]_vars

\* The smallest overflowing product was asked for while the client held a
\* block.
C11_Witness ==
    /\ last.op = "tucalloc"
    /\ last.num * last.size = SIZE_MAX + 1
    /\ last.ret = NULL
    /\ live # {}

\* ---- C12 ----------------------------------------------------------------
\* C12: a call tucalloc(num, size) whose product fits size_t, num = 0 and
\* size = 0 included, runs to completion, calls tumalloc, and when it returns
\* a pointer every one of the num * size payload bytes behind it is zero.
C12_ZeroAllocateCompletes ==
    (last.op = "tucalloc" /\ last.num * last.size <= SIZE_MAX) =>
        /\ ~last.stopped
        /\ last.delegated
        /\ last.ret # NULL =>
              \A x \in Addr :
                  InRange(x, last.ret, last.num * last.size) => mem[x] = 0

\* ---- C14 ----------------------------------------------------------------
\* C14: for every size S of size_t, tumalloc(S) returns NULL or a block whose
\* recorded size is at least S rounded up to a multiple of ALIGNMENT, the
\* rounding taken in the integers: a request whose rounding leaves size_t
\* fails instead of wrapping.
C14_BlockHoldsRequest ==
    (last.op = "tumalloc" /\ last.ret # NULL) =>
        BlockSize(mem, HeaderOf(last.ret)) >=
            ((last.size + ALIGNMENT - 1) \div ALIGNMENT) * ALIGNMENT

\* ---- C15 ----------------------------------------------------------------
\* C15: on a well-formed heap, wherever the cursor stands, a call
\* tumalloc(S) for which some block of the free list has size at least the
\* rounded S returns a block of the free list and does not call sbrk.
C15_NoGrowthWhenSomeBlockFits ==
    [][ ( /\ last'.op = "tumalloc"
          /\ WellFormed
          /\ \E b \in FreeList : BlockSize(mem, b) >= AlignUp(last'.size) ) =>
          ( /\ ~last'.called
            /\ last'.ret # NULL
            /\ HeaderOf(last'.ret) \in FreeList
            /\ brk' = brk )
      ]_vars

\* A call of tumalloc that took its block from the free list.
ListHit ==
    /\ last'.op = "tumalloc"
    /\ ~last'.called
    /\ last'.ret # NULL
    /\ HeaderOf(last'.ret) \in FreeList

\* ---- C16 ----------------------------------------------------------------
\* C16: on a well-formed heap, wherever the cursor stands, a call of
\* tumalloc that takes a block from the free list takes that block out of
\* the list and nothing else: the other blocks of the list are afterwards
\* reachable from HEAD in the order they had, with the sizes they had.
C16_HitRemovesOnlyChosen ==
    [][ (ListHit /\ WellFormed) =>
          LET chosen == HeaderOf(last'.ret)
              others == FreeList \ {chosen}
          IN  /\ chosen \notin FreeListOf(HEAD', mem')
              /\ SelectSeq(FreeSeq(HEAD', mem'), LAMBDA b : b \in others)
                   = SelectSeq(FreeSeq(HEAD, mem), LAMBDA b : b \in others)
              /\ \A b \in others : BlockSize(mem', b) = BlockSize(mem, b)
      ]_vars

\* ---- C17 ----------------------------------------------------------------
\* C17: when tumalloc(S) takes from a well-formed heap a block of size B that
\* it splits (B > R + header_size, R the rounded S), the block handed out has
\* size R, and the tail, at the block's header + header_size + R, is a block
\* of size B - R - header_size that is in the free list after the call.
C17_SplitTailIsListed ==
    [][ LET chosen == HeaderOf(last'.ret)
            R == AlignUp(last'.size)
            B == BlockSize(mem, chosen)
            tail == chosen + HeaderSize + R
        IN  (ListHit /\ WellFormed /\ B > R + HeaderSize) =>
              ( /\ BlockSize(mem', chosen) = R
                /\ BlockSize(mem', tail) = B - R - HeaderSize
                /\ tail \in FreeListOf(HEAD', mem') )
      ]_vars

\* ---- C18 ----------------------------------------------------------------
\* C18: coalesce(block) on a block of a well-formed free list, wherever the
\* block's address-neighbours stand in the list, leaves in the list exactly
\* the blocks it did not absorb: the block itself is absorbed when a listed
\* block ends where it starts, and the listed block that starts where it ends
\* is absorbed.
C18_CoalesceKeepsList ==
    [][ LET block == last'.ptr
            before == {f \in FreeList : BlockEnd(mem, f) = block}
            after == {f \in FreeList : f = BlockEnd(mem, block)}
            absorbed == (IF before # {} THEN {block} ELSE {}) \cup after
        IN  (last'.op = "coalesce" /\ WellFormed) =>
              FreeListOf(HEAD', mem') = FreeList \ absorbed
      ]_vars

\* ---- C13 ----------------------------------------------------------------
\* C13: every pointer tumalloc has returned to the client is a multiple of
\* ALIGNMENT, whether its block was carved by extending the arena or taken
\* from the free list, whole or split, and whatever calls came before.
C13_PayloadsAligned ==
    /\ \A p \in live : p % ALIGNMENT = 0
    /\ last.op = "tumalloc" => last.ret % ALIGNMENT = 0

\* A request that is no multiple of ALIGNMENT was served from the free list,
\* from a block other than the first of the arena.
C13_Witness ==
    /\ last.op = "tumalloc"
    /\ last.size % ALIGNMENT # 0
    /\ ~last.called
    /\ last.ret \in live
    /\ last.ret # PayloadOf(ArenaBase)

\* ---- C19 ----------------------------------------------------------------
\* C19: after any sequence of insertions (do_alloc), splits and removals
\* (tumalloc) and coalesce calls (do_alloc), the walk from HEAD along next
\* meets no block twice and ends at NULL.
C19_ListAcyclic == Acyclic(HEAD, mem)

\* ---- C20 ----------------------------------------------------------------
\* C20: in every reachable state next_fit_ptr is NULL or a block of the free
\* list, it is no block the client holds, and after a call of tumalloc that
\* extended the arena it is NULL.
C20_CursorInList ==
    /\ next_fit_ptr \in FreeList \cup {NULL}
    /\ next_fit_ptr \notin LiveBlocks
    /\ (last.op = "tumalloc" /\ last.called /\ ~last.refused /\ ~last.stopped)
          => next_fit_ptr = NULL

====
